---- MODULE Spec2Model ----
(***************************************************************************)
(* A model of the RAG service: the text chunker (services/pdf_processor),  *)
(* the sensitive-data masker (utils/security), the embedding adapter       *)
(* (services/embedding_service), the vector index adapter                  *)
(* (services/vector_store), the blob adapter (services/azure_blob_client)  *)
(* and the three HTTP handlers of main.py.                                 *)
(*                                                                         *)
(* A Python str is a sequence of one-character strings, a list a sequence, *)
(* a dict a record.  Each request is a process with a program counter and  *)
(* one action per call its handler makes.                                  *)
(***************************************************************************)
EXTENDS Integers, Sequences, FiniteSets, TLC

\* ------------------------------------------------------------- bounds
\* longest enumerated chunker input
MaxTextLen == 5
\* largest enumerated chunk_size
MaxChunkSize == 4
\* longest enumerated masker input
MaxMaskLen == 7
\* longest list of texts handed to the embedding adapter on its own
MaxTexts == 34
\* uploads are admitted while fewer identifiers than this were drawn
MaxIds == 2
\* most files in one upload request
MaxFiles == 2
\* length of the one page of the long PDF
LongLen == 801
\* largest enumerated |top_k|
MaxTopK == 1
\* loop iterations followed when any chunker configuration is accepted
MaxIters == 8

\* ---------------------------------------------------------- Python helpers
Min(a, b) == IF a <= b THEN a ELSE b
Max(a, b) == IF a >= b THEN a ELSE b

\* one index of a Python slice, clamped the way s[a:b] clamps it
SliceIndex(k, n) == IF k < 0 THEN Max(k + n, 0) ELSE Min(k, n)

\* s[a:b]
PySlice(s, a, b) == SubSeq(s, SliceIndex(a, Len(s)) + 1, SliceIndex(b, Len(s)))

\* s[a:]
PySliceFrom(s, a) == PySlice(s, a, Len(s))

\* s[:b]
PySliceTo(s, b) == PySlice(s, 0, b)

\* c * n for a one-character string c
Repeat(c, n) == [k \in 1..n |-> c]

\* the characters str.strip() removes
Whitespace == {" ", "\n", "\t"}

RECURSIVE LStrip(_)
LStrip(s) == IF s # <<>> /\ Head(s) \in Whitespace THEN LStrip(Tail(s)) ELSE s

RECURSIVE RStrip(_)
RStrip(s) ==
    IF s # <<>> /\ s[Len(s)] \in Whitespace THEN RStrip(SubSeq(s, 1, Len(s) - 1)) ELSE s

\* s.strip()
Strip(s) == RStrip(LStrip(s))

\* s.endswith(suffix)
EndsWith(s, suffix) ==
    Len(s) >= Len(suffix) /\ SubSeq(s, Len(s) - Len(suffix) + 1, Len(s)) = suffix

\* every string over alphabet of length at most n
RECURSIVE Strings(_, _)
Strings(alphabet, n) ==
    IF n = 0 THEN {<<>>}
    ELSE LET shorter == Strings(alphabet, n - 1)
         IN  shorter \cup {Append(s, c) : s \in {t \in shorter : Len(t) = n - 1}, c \in alphabet}

\* ------------------------------------------------------------- state
VARIABLES
    chunk_size,        \* PDFProcessor.chunk_size
    chunk_overlap,     \* PDFProcessor.chunk_overlap
    vs_mock,           \* VectorStore.mock_mode
    blob_mock,         \* AzureBlobClient.mock_mode
    use_azure_openai,  \* EmbeddingService.use_azure_openai
    index,             \* VectorStore.mock_storage, or the documents of the search index
    blobs,             \* the blobs of the container: filename -> content
    next_uuid,         \* how many identifiers uuid4 has handed out
    req,               \* the requests being served, one record each
    mask_pc,           \* mask_sensitive_data: "idle", "called" or "returned"
    mask_text,         \* its argument text
    mask_result        \* its return value

cfgVars == <<chunk_size, chunk_overlap, vs_mock, blob_mock, use_azure_openai>>
storeVars == <<index, blobs, next_uuid>>
maskVars == <<mask_pc, mask_text, mask_result>>
vars == <<cfgVars, storeVars, req, maskVars>>

\* the request slots
Reqs == {"r1", "r2"}

DefaultChunkSize == 1000
DefaultChunkOverlap == 200
DefaultTopK == 5

\* a slot no request occupies
IdleReq == [
    pc |-> "idle", kind |-> "none",
    \* the response: its status code, and its body when the status is 200
    status |-> 0, response |-> <<>>,
    \* the exception that ended the request, "" when none did
    err |-> "",
    \* the stores as they were when the request arrived
    pre_index |-> <<>>, pre_blobs |-> <<>>,
    \* upload_pdfs: how many files the request holds, the files the loop has
    \* taken and their number, the current file, the calls made for it so
    \* far, and the handler's locals
    n_files |-> 0, files |-> <<>>, file_idx |-> 0, filename |-> <<>>, content |-> "",
    stages |-> <<>>, no_text |-> FALSE, blob_url |-> <<>>, doc_ids |-> <<>>,
    processed_files |-> <<>>,
    \* the filenames whose latest completed upload_blob was this request's
    last_puts |-> {},
    \* _create_chunks: its argument and locals; starts[k] is the value of
    \* start when chunks[k] was appended, wins[k] the number of the loop
    \* iteration that appended it
    text |-> <<>>, start |-> 0, chunks |-> <<>>, starts |-> <<>>,
    iter |-> 0, wins |-> <<>>,
    \* generate_embeddings: its argument and locals; issued lists the batches
    \* sent, in_flight counts the calls awaiting their response
    texts |-> <<>>, i |-> 0, batch |-> <<>>, embeddings |-> <<>>,
    issued |-> <<>>, in_flight |-> 0,
    \* query_documents: the request model
    query |-> <<>>, top_k |-> 0,
    \* delete_document: its arguments, and delete_by_metadata's doc_ids
    confirm |-> FALSE, found |-> <<>>, deleted_count |-> 0,
    \* the ids of the filename's records that were in the index when
    \* delete_documents ran and that the search had not returned
    missed |-> <<>>
]

Set(r, rec) == req' = [req EXCEPT ![r] = rec]

\* an exception reaches the handler's except clause: HTTPException(500)
Raise(q, error) ==
    [q EXCEPT !.pc = "done", !.err = error,
              !.status = IF q.kind \in {"upload", "query", "delete"} THEN 500 ELSE 0,
              !.response = [detail |-> error]]

\* ------------------------------------------------------------ chunker
\* the advance of start per loop iteration
ChunkAdvanceNoOverlap(size, overlap) == size
ChunkAdvanceAtLeastOne(size, overlap) == IF size - overlap >= 1 THEN size - overlap ELSE 1
ChunkAdvance(size, overlap) == size - overlap

\* one iteration of the while loop of _create_chunks
ChunkIteration(q, size, overlap) ==
    LET end == q.start + size
        chunk == PySlice(q.text, q.start, end)
        keep == Strip(chunk) # <<>>
    IN  [q EXCEPT
            !.chunks = IF keep THEN Append(@, chunk) ELSE @,
            !.starts = IF keep THEN Append(@, q.start) ELSE @,
            !.wins = IF keep THEN Append(@, q.iter) ELSE @,
            !.iter = @ + 1,
            !.start = @ + ChunkAdvance(size, overlap)]

\* while start < len(text): ...
ChunkStep(r) ==
    /\ req[r].pc = "chunk_loop"
    /\ req[r].start < Len(req[r].text)
    /\ Set(r, ChunkIteration(req[r], chunk_size, chunk_overlap))
    /\ UNCHANGED <<cfgVars, storeVars, maskVars>>

\* return chunks; in upload_pdfs the chunks go on to generate_embeddings
ChunkReturn(r) ==
    /\ req[r].pc = "chunk_loop"
    /\ req[r].start >= Len(req[r].text)
    /\ Set(r, IF req[r].kind = "upload"
              THEN [req[r] EXCEPT !.pc = "emb_call", !.texts = req[r].chunks,
                                  !.stages = Append(@, "extract")]
              ELSE [req[r] EXCEPT !.pc = "done"])
    /\ UNCHANGED <<cfgVars, storeVars, maskVars>>

\* ------------------------------------------------------ embedding adapter
batch_size == 16

\* the vector the backend computes for a text
BackendVector(t) == <<Len(t)>>

\* generate_embeddings picks the backend
EmbedCall(r) ==
    /\ req[r].pc = "emb_call"
    /\ Set(r, [req[r] EXCEPT
                !.pc = IF use_azure_openai THEN "emb_loop" ELSE "emb_local",
                !.i = 0, !.batch = <<>>, !.embeddings = <<>>,
                !.issued = <<>>, !.in_flight = 0])
    /\ UNCHANGED <<cfgVars, storeVars, maskVars>>

\* batch = texts[i:i + batch_size]
NextBatchOfSeventeen(texts, i) == PySlice(texts, i, i + batch_size + 1)
NextBatch(texts, i) == PySlice(texts, i, i + batch_size)

\* for i in range(0, len(texts), batch_size): send the batch and await
EmbedIssue(r) ==
    /\ req[r].pc = "emb_loop"
    /\ req[r].i < Len(req[r].texts)
    /\ LET batch == NextBatch(req[r].texts, req[r].i)
       IN  Set(r, [req[r] EXCEPT !.pc = "emb_wait", !.batch = batch,
                                 !.issued = Append(@, batch),
                                 !.in_flight = @ + 1])
    /\ UNCHANGED <<cfgVars, storeVars, maskVars>>

\* embeddings.extend(batch_embeddings), given one vector per text in order
Extend(embeddings, batch_embeddings) == embeddings \o batch_embeddings

\* the response arrives
EmbedReceive(r) ==
    /\ req[r].pc = "emb_wait"
    /\ LET batch_embeddings == [k \in 1..Len(req[r].batch) |-> BackendVector(req[r].batch[k])]
       IN  Set(r, [req[r] EXCEPT !.pc = "emb_loop",
                                 !.embeddings = Extend(@, batch_embeddings),
                                 !.in_flight = @ - 1,
                                 !.i = @ + batch_size])
    /\ UNCHANGED <<cfgVars, storeVars, maskVars>>

\* the call fails: no retry, the exception leaves generate_embeddings
EmbedFail(r) ==
    /\ req[r].pc \in {"emb_wait", "emb_local"}
    /\ Set(r, Raise([req[r] EXCEPT !.in_flight = 0], "EmbeddingError"))
    /\ UNCHANGED <<cfgVars, storeVars, maskVars>>

\* the range is exhausted: return embeddings
EmbedLoopExit(r) ==
    /\ req[r].pc = "emb_loop"
    /\ req[r].i >= Len(req[r].texts)
    /\ Set(r, [req[r] EXCEPT !.pc = "emb_ret"])
    /\ UNCHANGED <<cfgVars, storeVars, maskVars>>

\* _generate_local_embeddings: model.encode(texts) in the executor
EmbedLocal(r) ==
    /\ req[r].pc = "emb_local"
    /\ Set(r, [req[r] EXCEPT
                !.pc = "emb_ret",
                !.embeddings = [k \in 1..Len(req[r].texts) |-> BackendVector(req[r].texts[k])]])
    /\ UNCHANGED <<cfgVars, storeVars, maskVars>>

\* logger.info(f"... {len(embeddings[0])}"); return embeddings
EmbedReturn(r) ==
    /\ req[r].pc = "emb_ret"
    /\ Set(r, IF req[r].embeddings = <<>> THEN Raise(req[r], "IndexError")
              ELSE [req[r] EXCEPT
                      !.pc = CASE req[r].kind = "upload" -> "up_store"
                               [] req[r].kind = "query" -> "q_search"
                               [] OTHER -> "done",
                      !.stages = IF req[r].kind = "upload" THEN Append(@, "embed") ELSE @])
    /\ UNCHANGED <<cfgVars, storeVars, maskVars>>

\* ------------------------------------------------------- vector index
\* str(uuid.uuid4()): the k-th identifier drawn after n were handed out
ChunkOrdinalAsUuid(n, k) == k
NewUuid(n, k) == n + k

\* the documents store_vectors builds from zip(embeddings, texts)
Documents(embeddings, texts, filename, n) ==
    [k \in 1..Min(Len(embeddings), Len(texts)) |->
        [id |-> NewUuid(n, k), content |-> texts[k], embedding |-> embeddings[k],
         filename |-> filename, chunk_id |-> k - 1]]

Ids(docs) == [k \in 1..Len(docs) |-> docs[k].id]

\* doc.get(field)
Get(doc, field) == IF field \in DOMAIN doc THEN doc[field] ELSE "None"

\* the mock search: self.mock_storage[:top_k], formatted
FirstTopK(storage, top_k) == PySliceTo(storage, top_k)

SearchResults(docs, score) ==
    [k \in 1..Len(docs) |->
        [text |-> docs[k].content, score |-> score,
         metadata |-> [filename |-> docs[k].filename, chunk_id |-> docs[k].chunk_id]]]

\* the mock delete: [doc for doc in self.mock_storage if doc.get(field) != value]
KeepMatching(storage, field, value) ==
    SelectSeq(storage, LAMBDA doc : Get(doc, field) = value)
KeepOthers(storage, field, value) ==
    SelectSeq(storage, LAMBDA doc : Get(doc, field) # value)

\* the live delete, first step: the ids of search(filter = "field eq 'value'")
MatchingIds(docs, field, value) ==
    Ids(SelectSeq(docs, LAMBDA doc : Get(doc, field) = value))

InSeq(x, s) == \E k \in 1..Len(s) : s[k] = x

\* the live delete, second step: delete_documents(documents = doc_ids)
KeepAllDocs(docs, ids) == docs
WithoutIds(docs, ids) == SelectSeq(docs, LAMBDA doc : ~InSeq(doc.id, ids))

\* ---------------------------------------------------------- blob store
\* upload_blob(..., overwrite=True)
KeepExistingBlob(store, filename, content) ==
    [f \in DOMAIN store \cup {filename} |-> IF f \in DOMAIN store THEN store[f] ELSE content]
PutBlob(store, filename, content) ==
    [f \in DOMAIN store \cup {filename} |-> IF f = filename THEN content ELSE store[f]]

\* delete_blob()
RemoveBlob(store, filename) == [f \in DOMAIN store \ {filename} |-> store[f]]

BlobUrl(mock, filename) == [mock |-> mock, container |-> "pdf-documents", blob |-> filename]

\* ------------------------------------------------------------- masker
Lower == {"a", "b", "c", "d", "e", "f", "g", "h", "i", "j", "k", "l", "m",
          "n", "o", "p", "q", "r", "s", "t", "u", "v", "w", "x", "y", "z"}
Upper == {"A", "B", "C", "D", "E", "F", "G", "H", "I", "J", "K", "L", "M",
          "N", "O", "P", "Q", "R", "S", "T", "U", "V", "W", "X", "Y", "Z"}
Digits == {"0", "1", "2", "3", "4", "5", "6", "7", "8", "9"}

\* [A-Za-z0-9._%+-]
LocalClass == Lower \cup Upper \cup Digits \cup {".", "_", "%", "+", "-"}
\* [A-Za-z0-9.-]
DomainClass == Lower \cup Upper \cup Digits \cup {".", "-"}
\* [A-Z|a-z]
TldClass == Lower \cup Upper \cup {"|"}
\* \w
WordClass == Lower \cup Upper \cup Digits \cup {"_"}

\* \b between s[p] and s[p+1] (p characters lie before it)
WordBoundary(s, p) ==
    (p >= 1 /\ s[p] \in WordClass) # (p < Len(s) /\ s[p + 1] \in WordClass)

\* the positions q > p with s[p+1..q] all in class
RunEnds(s, p, class) ==
    {q \in (p + 1)..Len(s) : \A k \in (p + 1)..q : s[k] \in class}

\* the ways the pattern matches from p: <<l, d, t>> the ends of the local part,
\* of the domain and of the top-level domain
EmailParses(s, p) ==
    IF ~WordBoundary(s, p) THEN {}
    ELSE {m \in RunEnds(s, p, LocalClass) \X (1..Len(s)) \X (1..Len(s)) :
            /\ m[1] < Len(s) /\ s[m[1] + 1] = "@"
            /\ m[2] \in RunEnds(s, m[1] + 1, DomainClass)
            /\ m[2] < Len(s) /\ s[m[2] + 1] = "."
            /\ m[3] \in RunEnds(s, m[2] + 1, TldClass)
            /\ m[3] >= m[2] + 3
            /\ WordBoundary(s, m[3])}

\* each + and {2,} is greedy: the engine takes the parse with the longest
\* local part, then the longest domain, then the longest top-level domain
Preferred(m, n) ==
    \/ m[1] > n[1]
    \/ m[1] = n[1] /\ m[2] > n[2]
    \/ m[1] = n[1] /\ m[2] = n[2] /\ m[3] >= n[3]

\* the end of the match re finds starting at p, or 0 when there is none
EmailMatchEnd(s, p) ==
    LET parses == EmailParses(s, p)
    IN  IF parses = {} THEN 0
        ELSE (CHOOSE m \in parses : \A n \in parses : Preferred(m, n))[3]

\* lambda m: m.group(0)[:3] + mask_char * 5 + m.group(0)[-4:]
KeepFirstFour(m, mask_char) == PySliceTo(m, 4) \o Repeat(mask_char, 5) \o PySliceFrom(m, -4)
MaskEmail(m, mask_char) == PySliceTo(m, 3) \o Repeat(mask_char, 5) \o PySliceFrom(m, -4)

\* re.sub over s from position p: replace each leftmost match, copy the rest
RECURSIVE SubEmails(_, _, _)
SubEmails(s, p, mask_char) ==
    IF p >= Len(s) THEN <<>>
    ELSE LET e == EmailMatchEnd(s, p)
         IN  IF e > p
             THEN MaskEmail(SubSeq(s, p + 1, e), mask_char) \o SubEmails(s, e, mask_char)
             ELSE <<s[p + 1]>> \o SubEmails(s, p + 1, mask_char)

Contains(s, c) == \E k \in 1..Len(s) : s[k] = c

\* mask_sensitive_data(text, mask_char)
mask_sensitive_data(text, mask_char) ==
    IF text = <<>> THEN text
    ELSE LET masked == SubEmails(text, 0, mask_char)
         IN  IF Len(masked) > 30 /\ (Contains(masked, "/") \/ Contains(masked, "\\"))
             THEN PySliceTo(masked, 10) \o Repeat(mask_char, 10) \o PySliceFrom(masked, -10)
             ELSE masked

MaskReturn ==
    /\ mask_pc = "called"
    /\ mask_result' = mask_sensitive_data(mask_text, "*")
    /\ mask_pc' = "returned"
    /\ UNCHANGED <<cfgVars, storeVars, req, mask_text>>

\* ------------------------------------------------------- the requests
FileA == <<"a", ".", "p", "d", "f">>
FileB == <<"b", ".", "p", "d", "f">>
FileTxt == <<"n", ".", "t", "x", "t">>

\* the one page of the long PDF
LongPage == [k \in 1..LongLen |-> IF k % 2 = 0 THEN "b" ELSE "a"]

\* what PdfReader(...).pages and page.extract_text() give for each content:
\* a PDF of one long page, one of two short pages, one of a single short
\* page, a scan with no text layer; "garbage" is no PDF and makes PdfReader
\* raise
PdfPages(content) ==
    CASE content = "long" -> <<LongPage>>
      [] content = "short" -> <<<<"h", "i">>, <<"!">>>>
      [] content = "note" -> <<<<"o", "k">>>>
      [] content = "scan" -> <<<<>>>>
      [] OTHER -> <<>>

\* full_text += text + "\n" for every page
RECURSIVE FullText(_)
FullText(pages) ==
    IF pages = <<>> THEN <<>> ELSE Head(pages) \o <<"\n">> \o FullText(Tail(pages))

UploadFiles == {
    [filename |-> FileA, content |-> "long"],
    [filename |-> FileB, content |-> "short"],
    [filename |-> FileB, content |-> "scan"],
    [filename |-> FileB, content |-> "garbage"],
    [filename |-> FileTxt, content |-> "short"]}

TopKs == ((0 - MaxTopK)..MaxTopK) \cup {DefaultTopK}

QueryText == <<"h", "i">>

Free(r) == req[r].pc = "idle"

\* the response is sent and the handler's frame is gone
Respond(r) ==
    /\ req[r].pc = "done"
    /\ Set(r, IdleReq)
    /\ UNCHANGED <<cfgVars, storeVars, maskVars>>

Arrive(r, kind, pc) ==
    [IdleReq EXCEPT !.kind = kind, !.pc = pc, !.pre_index = index, !.pre_blobs = blobs]

\* POST /upload with a number of files among counts
StartUploadOf(r, counts) ==
    /\ Free(r)
    /\ next_uuid < MaxIds
    /\ \E n \in counts :
         Set(r, [Arrive(r, "upload", "up_next") EXCEPT !.n_files = n])
    /\ UNCHANGED <<cfgVars, storeVars, maskVars>>

StartUpload(r) == StartUploadOf(r, 0..MaxFiles)

\* POST /query
StartQuery(r) ==
    /\ Free(r)
    /\ \E top_k \in TopKs :
         Set(r, [Arrive(r, "query", "emb_call") EXCEPT
                    !.query = QueryText, !.top_k = top_k, !.texts = <<QueryText>>])
    /\ UNCHANGED <<cfgVars, storeVars, maskVars>>

\* DELETE /documents/{filename}
StartDelete(r) ==
    /\ Free(r)
    /\ \E filename \in {FileA, FileB} : \E confirm \in BOOLEAN :
         Set(r, [Arrive(r, "delete", "del_check") EXCEPT
                    !.filename = filename, !.confirm = confirm])
    /\ UNCHANGED <<cfgVars, storeVars, maskVars>>

\* ------------------------------------------------------- upload_pdfs
\* for file in files: skip the file that is no PDF, read the next one;
\* after the last file, the 200 response with the per-file summary.  The
\* files of the request enter the record as the loop reaches them.
UploadNextOf(r, candidates) ==
    /\ req[r].pc = "up_next"
    /\ LET q == req[r]
       IN  IF q.file_idx = q.n_files
           THEN Set(r, [q EXCEPT !.pc = "done", !.status = 200,
                                 !.response = [processed |-> Len(q.processed_files),
                                               files |-> q.processed_files]])
           ELSE \E file \in candidates :
                  Set(r, IF ~EndsWith(file.filename, <<".", "p", "d", "f">>)
                         THEN [q EXCEPT !.file_idx = @ + 1, !.files = Append(@, file)]
                         ELSE [q EXCEPT !.file_idx = @ + 1, !.files = Append(@, file),
                                        !.pc = "up_blob",
                                        !.filename = file.filename,
                                        !.content = file.content,
                                        !.stages = <<>>, !.no_text = FALSE])
    /\ UNCHANGED <<cfgVars, storeVars, maskVars>>

UploadNext(r) == UploadNextOf(r, UploadFiles)

\* blob_url = await blob_client.upload_blob(file.filename, content)
UploadBlob(r) ==
    /\ req[r].pc = "up_blob"
    /\ blobs' = IF blob_mock THEN blobs ELSE PutBlob(blobs, req[r].filename, req[r].content)
    /\ req' = [x \in Reqs |->
                IF x = r
                THEN [req[r] EXCEPT !.pc = "up_extract",
                                    !.blob_url = BlobUrl(blob_mock, req[r].filename),
                                    !.stages = Append(@, "blob"),
                                    !.last_puts = @ \cup {req[r].filename}]
                ELSE [req[x] EXCEPT !.last_puts = @ \ {req[r].filename}]]
    /\ UNCHANGED <<cfgVars, index, next_uuid, maskVars>>

\* the live upload raises
UploadBlobFail(r) ==
    /\ req[r].pc = "up_blob"
    /\ ~blob_mock
    /\ Set(r, Raise(req[r], "BlobError"))
    /\ UNCHANGED <<cfgVars, storeVars, maskVars>>

\* text_chunks = pdf_processor.extract_text(content, file.filename), up to
\* the call of _create_chunks
UploadExtract(r) ==
    /\ req[r].pc = "up_extract"
    /\ LET q == req[r]
           full_text == FullText(PdfPages(q.content))
       IN  Set(r,
             IF q.content = "garbage" THEN Raise(q, "ExtractionError")
             ELSE IF Strip(full_text) = <<>>
             THEN [q EXCEPT !.pc = "emb_call", !.no_text = TRUE, !.chunks = <<>>,
                            !.texts = <<>>, !.stages = Append(@, "extract")]
             ELSE [q EXCEPT !.pc = "chunk_loop", !.text = full_text, !.start = 0,
                            !.chunks = <<>>, !.starts = <<>>, !.iter = 0, !.wins = <<>>])
    /\ UNCHANGED <<cfgVars, storeVars, maskVars>>

\* doc_ids = await vector_store.store_vectors(embeddings, text_chunks, metadata)
UploadStore(r) ==
    /\ req[r].pc = "up_store"
    /\ LET q == req[r]
           documents == Documents(q.embeddings, q.chunks, q.filename, next_uuid)
       IN  /\ index' = index \o documents
           /\ next_uuid' = next_uuid + Len(documents)
           /\ Set(r, [q EXCEPT !.pc = "up_next", !.doc_ids = Ids(documents),
                               !.stages = Append(@, "store"),
                               !.processed_files =
                                    Append(@, [filename |-> q.filename,
                                               chunks |-> Len(q.chunks),
                                               status |-> "success"])])
    /\ UNCHANGED <<cfgVars, blobs, maskVars>>

\* upload_documents raises, some of the documents possibly written
UploadStoreFail(r) ==
    /\ req[r].pc = "up_store"
    /\ ~vs_mock
    /\ LET q == req[r]
           documents == Documents(q.embeddings, q.chunks, q.filename, next_uuid)
       IN  /\ \E written \in 0..Len(documents) : index' = index \o SubSeq(documents, 1, written)
           /\ next_uuid' = next_uuid + Len(documents)
           /\ Set(r, Raise(q, "IndexError_store"))
    /\ UNCHANGED <<cfgVars, blobs, maskVars>>

\* ---------------------------------------------------- query_documents
\* what the handler returns for the results of search
FormatResults(results) ==
    [k \in 1..Len(results) |->
        [text |-> results[k].text, score |-> results[k].score,
         metadata |-> [filename |-> mask_sensitive_data(results[k].metadata.filename, "*"),
                       chunk_id |-> results[k].metadata.chunk_id]]]

\* results = await vector_store.search(query_embedding[0], top_k); the live
\* index answers a vector query for the k nearest neighbours, k >= 1, with
\* at most k documents
QuerySearch(r) ==
    /\ req[r].pc = "q_search"
    /\ vs_mock \/ req[r].top_k >= 1
    /\ LET q == req[r]
           results == IF vs_mock
                      THEN SearchResults(FirstTopK(index, q.top_k), "0.95")
                      ELSE SearchResults(SubSeq(index, 1, Min(q.top_k, Len(index))),
                                         "@search.score")
       IN  Set(r, [q EXCEPT !.pc = "done", !.status = 200,
                            !.response = [results |-> FormatResults(results),
                                          query |-> mask_sensitive_data(q.query, "*")]])
    /\ UNCHANGED <<cfgVars, storeVars, maskVars>>

\* the live search raises
QuerySearchFail(r) ==
    /\ req[r].pc = "q_search"
    /\ ~vs_mock
    /\ Set(r, Raise(req[r], "SearchError"))
    /\ UNCHANGED <<cfgVars, storeVars, maskVars>>

\* ---------------------------------------------------- delete_document
\* the request is rejected unless confirm is true
ProceedUnconfirmed(q) == [q EXCEPT !.pc = "del_vec"]
CheckConfirm(q) ==
    IF ~q.confirm
    THEN [q EXCEPT !.pc = "done", !.status = 400,
                   !.response = [detail |-> "Destructive operation requires explicit confirmation"]]
    ELSE [q EXCEPT !.pc = "del_vec"]

\* if not confirm: raise HTTPException(status_code=400, ...)
DeleteCheck(r) ==
    /\ req[r].pc = "del_check"
    /\ Set(r, CheckConfirm(req[r]))
    /\ UNCHANGED <<cfgVars, storeVars, maskVars>>

\* deleted = initial_count - len(self.mock_storage)
Deleted(initial_count, remaining) == initial_count - remaining

\* delete_by_metadata("filename", filename), mock mode
DeleteMock(r) ==
    /\ req[r].pc = "del_vec"
    /\ vs_mock
    /\ LET initial_count == Len(index)
           kept == KeepOthers(index, "filename", req[r].filename)
       IN  /\ index' = kept
           /\ Set(r, [req[r] EXCEPT !.pc = "del_blob",
                                    !.stages = Append(@, "vectors"),
                                    !.deleted_count = Deleted(initial_count, Len(kept))])
    /\ UNCHANGED <<cfgVars, blobs, next_uuid, maskVars>>

\* delete_by_metadata, live: doc_ids = the ids the filtered search returns
DeleteSearch(r) ==
    /\ req[r].pc = "del_vec"
    /\ ~vs_mock
    /\ Set(r, [req[r] EXCEPT !.pc = "del_docs",
                             !.found = MatchingIds(index, "filename", req[r].filename)])
    /\ UNCHANGED <<cfgVars, storeVars, maskVars>>

\* return len(doc_ids)
DeletedOfIndex(docs, doc_ids) == Len(docs) - Len(WithoutIds(docs, doc_ids))
DeletedLive(docs, doc_ids) == Len(doc_ids)

\* if doc_ids: delete_documents(documents=doc_ids); return len(doc_ids)
DeleteDocs(r) ==
    /\ req[r].pc = "del_docs"
    /\ index' = IF req[r].found # <<>> THEN WithoutIds(index, req[r].found) ELSE index
    /\ Set(r, [req[r] EXCEPT !.pc = "del_blob", !.stages = Append(@, "vectors"),
                             !.deleted_count = DeletedLive(index, req[r].found),
                             !.missed = SelectSeq(MatchingIds(index, "filename", req[r].filename),
                                                  LAMBDA id : ~InSeq(id, req[r].found))])
    /\ UNCHANGED <<cfgVars, blobs, next_uuid, maskVars>>

\* the live search or the live delete raises
DeleteVectorsFail(r) ==
    /\ \/ req[r].pc = "del_vec" /\ ~vs_mock
       \/ req[r].pc = "del_docs" /\ req[r].found # <<>>
    /\ Set(r, Raise(req[r], "IndexError_delete"))
    /\ UNCHANGED <<cfgVars, storeVars, maskVars>>

\* await blob_client.delete_blob(filename), then the 200 response
DeleteBlob(r) ==
    /\ req[r].pc = "del_blob"
    /\ blob_mock \/ req[r].filename \in DOMAIN blobs
    /\ blobs' = IF blob_mock THEN blobs ELSE RemoveBlob(blobs, req[r].filename)
    /\ Set(r, [req[r] EXCEPT !.pc = "done", !.status = 200,
                             !.stages = Append(@, "blob"),
                             !.response = [vectors_deleted |-> req[r].deleted_count]])
    /\ UNCHANGED <<cfgVars, index, next_uuid, maskVars>>

\* the live delete_blob raises: the blob is not there, or the service fails
DeleteBlobFail(r) ==
    /\ req[r].pc = "del_blob"
    /\ ~blob_mock
    /\ Set(r, Raise([req[r] EXCEPT !.stages = Append(@, "blob")], "BlobError"))
    /\ UNCHANGED <<cfgVars, storeVars, maskVars>>

\* ------------------------------------- the service, one request at a time
Init ==
    /\ chunk_size = DefaultChunkSize
    /\ chunk_overlap = DefaultChunkOverlap
    /\ vs_mock \in BOOLEAN
    /\ blob_mock \in BOOLEAN
    /\ use_azure_openai \in BOOLEAN
    /\ index = <<>>
    /\ blobs = <<>>
    /\ next_uuid = 0
    /\ req = [r \in Reqs |-> IdleReq]
    /\ mask_pc = "idle"
    /\ mask_text = <<>>
    /\ mask_result = <<>>

Step(r) ==
    \/ StartUpload(r) \/ StartQuery(r) \/ StartDelete(r)
    \/ UploadNext(r) \/ UploadBlob(r) \/ UploadBlobFail(r) \/ UploadExtract(r)
    \/ ChunkStep(r) \/ ChunkReturn(r)
    \/ EmbedCall(r) \/ EmbedIssue(r) \/ EmbedReceive(r) \/ EmbedFail(r)
    \/ EmbedLoopExit(r) \/ EmbedLocal(r) \/ EmbedReturn(r)
    \/ UploadStore(r) \/ UploadStoreFail(r)
    \/ QuerySearch(r) \/ QuerySearchFail(r)
    \/ DeleteCheck(r) \/ DeleteMock(r) \/ DeleteSearch(r) \/ DeleteDocs(r)
    \/ DeleteVectorsFail(r) \/ DeleteBlob(r) \/ DeleteBlobFail(r)
    \/ Respond(r)

Next == Step("r1")

Spec == Init /\ [][Next]_vars

\* ------------------------------------------- the chunker on its own
ChunkAlphabet == {"a", " ", "\n"}

\* the text of end-to-end scenario A
ScenarioText == [k \in 1..2500 |-> IF k % 7 = 0 THEN " " ELSE "a"]

ChunkConfigs ==
    {<<DefaultChunkSize, DefaultChunkOverlap>>}
        \cup {<<c, o>> \in (1..MaxChunkSize) \X (0..MaxChunkSize) : o < c}

ChunkTexts(cfg) ==
    Strings(ChunkAlphabet, MaxTextLen)
        \cup (IF cfg = <<DefaultChunkSize, DefaultChunkOverlap>> THEN {ScenarioText} ELSE {})

\* _create_chunks(text) is called on a processor of some configuration
InitChunk ==
    \E cfg \in ChunkConfigs : \E t \in ChunkTexts(cfg) :
        /\ chunk_size = cfg[1]
        /\ chunk_overlap = cfg[2]
        /\ vs_mock = TRUE
        /\ blob_mock = TRUE
        /\ use_azure_openai = TRUE
        /\ index = <<>>
        /\ blobs = <<>>
        /\ next_uuid = 0
        /\ req = [r \in Reqs |->
                    IF r = "r1"
                    THEN [IdleReq EXCEPT !.pc = "chunk_loop", !.kind = "chunk", !.text = t]
                    ELSE IdleReq]
        /\ mask_pc = "idle"
        /\ mask_text = <<>>
        /\ mask_result = <<>>

NextChunk == ChunkStep("r1") \/ ChunkReturn("r1")

SpecChunk == InitChunk /\ [][NextChunk]_vars

\* ------------------------------------ two upload requests side by side
\* the files the two requests draw from: two PDFs of one name and one chunk
\* each whose contents differ, and a PDF of two chunks
RaceFiles == {
    [filename |-> FileB, content |-> "short"],
    [filename |-> FileB, content |-> "note"],
    [filename |-> FileA, content |-> "long"]}

\* an upload request of one file, from its arrival to its response
UploadStep(r) ==
    \/ StartUploadOf(r, {1})
    \/ UploadNextOf(r, RaceFiles) \/ UploadBlob(r) \/ UploadBlobFail(r) \/ UploadExtract(r)
    \/ ChunkStep(r) \/ ChunkReturn(r)
    \/ EmbedCall(r) \/ EmbedIssue(r) \/ EmbedReceive(r) \/ EmbedFail(r)
    \/ EmbedLoopExit(r) \/ EmbedLocal(r) \/ EmbedReturn(r)
    \/ UploadStore(r) \/ UploadStoreFail(r)

\* each slot serves one upload request; the handlers' service calls interleave
NextUploads == UploadStep("r1") \/ UploadStep("r2")

SpecUploads == Init /\ [][NextUploads]_vars

\* ----------------------- uploads and deletes side by side, live index
\* a delete request, from its arrival to its response
DeleteStep(r) ==
    \/ StartDelete(r) \/ DeleteCheck(r)
    \/ DeleteSearch(r) \/ DeleteDocs(r) \/ DeleteVectorsFail(r)
    \/ DeleteBlob(r) \/ DeleteBlobFail(r)

\* the one chunk of the PDF named FileB that the k-th earlier ingestion took
StoredChunk(k) == FullText(PdfPages(IF k % 2 = 1 THEN "short" ELSE "note"))

\* the index after k ingestions of FileB, one record each
RECURSIVE Stored(_)
Stored(k) ==
    IF k = 0 THEN <<>>
    ELSE Stored(k - 1)
            \o Documents(<<BackendVector(StoredChunk(k))>>, <<StoredChunk(k)>>, FileB, k - 1)

\* the service against a live search index, FileB having been ingested once
\* or more and the responses sent
InitLive ==
    \E k \in 1..MaxIds :
        /\ chunk_size = DefaultChunkSize
        /\ chunk_overlap = DefaultChunkOverlap
        /\ vs_mock = FALSE
        /\ blob_mock \in BOOLEAN
        /\ use_azure_openai \in BOOLEAN
        /\ index = Stored(k)
        /\ blobs = IF blob_mock THEN <<>>
                   ELSE [f \in {FileB} |-> IF k % 2 = 1 THEN "short" ELSE "note"]
        /\ next_uuid = k
        /\ req = [r \in Reqs |-> IdleReq]
        /\ mask_pc = "idle"
        /\ mask_text = <<>>
        /\ mask_result = <<>>

\* each slot serves one request, an upload or a delete; the service calls of
\* the two requests interleave
NextRace == \E r \in Reqs : UploadStep(r) \/ DeleteStep(r)

SpecRace == InitLive /\ [][NextRace]_vars

\* ------------------- the chunker on its own, any configuration accepted
\* PDFProcessor(chunk_size, chunk_overlap) checks neither argument
AnyChunkConfigs == (0..MaxChunkSize) \X ((0 - 1)..(MaxChunkSize + 1))

AnyChunkTexts == Strings({"a", " "}, MaxTextLen)

InitChunkAny ==
    \E cfg \in AnyChunkConfigs : \E t \in AnyChunkTexts :
        /\ chunk_size = cfg[1]
        /\ chunk_overlap = cfg[2]
        /\ vs_mock = TRUE
        /\ blob_mock = TRUE
        /\ use_azure_openai = TRUE
        /\ index = <<>>
        /\ blobs = <<>>
        /\ next_uuid = 0
        /\ req = [r \in Reqs |->
                    IF r = "r1"
                    THEN [IdleReq EXCEPT !.pc = "chunk_loop", !.kind = "chunk", !.text = t]
                    ELSE IdleReq]
        /\ mask_pc = "idle"
        /\ mask_text = <<>>
        /\ mask_result = <<>>

\* the loop, followed for MaxIters iterations
ChunkStepUpTo(r) == req[r].iter < MaxIters /\ ChunkStep(r)

NextChunkAny == ChunkStepUpTo("r1") \/ ChunkReturn("r1")

\* the interpreter keeps running the loop
SpecChunkAny == InitChunkAny /\ [][NextChunkAny]_vars /\ WF_vars(NextChunkAny)

\* ------------------------------------------- the masker on its own
MaskAlphabet == {"a", ".", "@", "|"}

\* "john.doe@example.com"
JohnDoe == <<"j", "o", "h", "n", ".", "d", "o", "e", "@",
             "e", "x", "a", "m", "p", "l", "e", ".", "c", "o", "m">>

\* "/data/uploads/2024/john.doe@example.com"
LongPath == <<"/", "d", "a", "t", "a", "/", "u", "p", "l", "o", "a", "d", "s", "/",
              "2", "0", "2", "4", "/">> \o JohnDoe

MaskInputs ==
    Strings(MaskAlphabet, MaxMaskLen)
        \cup {JohnDoe, LongPath, LongPath \o <<".", "p", "d", "f">>}

\* mask_sensitive_data(text) is called with the default mask_char
InitMask ==
    /\ chunk_size = DefaultChunkSize
    /\ chunk_overlap = DefaultChunkOverlap
    /\ vs_mock = TRUE
    /\ blob_mock = TRUE
    /\ use_azure_openai = TRUE
    /\ index = <<>>
    /\ blobs = <<>>
    /\ next_uuid = 0
    /\ req = [r \in Reqs |-> IdleReq]
    /\ mask_pc = "called"
    /\ mask_text \in MaskInputs
    /\ mask_result = <<>>

NextMask == MaskReturn

SpecMask == InitMask /\ [][NextMask]_vars

\* ---------------------------------- the embedding adapter on its own
\* n texts, all different: the k-th is k characters long
EmbedTexts(n) == [k \in 1..n |-> Repeat("a", k)]

\* generate_embeddings(texts) is called on a service of either backend
InitEmbed ==
    \E n \in 0..MaxTexts :
        /\ chunk_size = DefaultChunkSize
        /\ chunk_overlap = DefaultChunkOverlap
        /\ vs_mock = TRUE
        /\ blob_mock = TRUE
        /\ use_azure_openai \in BOOLEAN
        /\ index = <<>>
        /\ blobs = <<>>
        /\ next_uuid = 0
        /\ req = [r \in Reqs |->
                    IF r = "r1"
                    THEN [IdleReq EXCEPT !.pc = "emb_call", !.kind = "embed",
                                         !.texts = EmbedTexts(n)]
                    ELSE IdleReq]
        /\ mask_pc = "idle"
        /\ mask_text = <<>>
        /\ mask_result = <<>>

NextEmbed ==
    \/ EmbedCall("r1") \/ EmbedIssue("r1") \/ EmbedReceive("r1") \/ EmbedFail("r1")
    \/ EmbedLoopExit("r1") \/ EmbedLocal("r1") \/ EmbedReturn("r1")

SpecEmbed == InitEmbed /\ [][NextEmbed]_vars

\* =============================================================== claims
ChunkDone == req["r1"].kind = "chunk" /\ req["r1"].pc = "done"

Lengths(ss) == [k \in 1..Len(ss) |-> Len(ss[k])]

OverlapBy(s, t, n) ==
    /\ Len(s) >= n
    /\ Len(t) >= n
    /\ SubSeq(s, Len(s) - n + 1, Len(s)) = SubSeq(t, 1, n)

\* how many positions of the text chunks k and k+1 of q both cover
SharedPositions(q, k) ==
    Max(0, Min(q.starts[k] + Len(q.chunks[k]), q.starts[k + 1] + Len(q.chunks[k + 1]))
            - q.starts[k + 1])

\* C6 as stated: every two adjacent chunks, except the pair whose later member
\* is the final chunk, share exactly chunk_overlap characters: the last
\* chunk_overlap characters of the earlier are the first chunk_overlap
\* characters of the later.
C6_AsStated ==
    ChunkDone =>
        \A k \in 1..(Len(req["r1"].chunks) - 2) :
            OverlapBy(req["r1"].chunks[k], req["r1"].chunks[k + 1], chunk_overlap)

\* C6 (amended): two adjacent chunks taken from consecutive windows (no blank
\* window skipped between them) whose later member has at least chunk_overlap
\* characters share exactly chunk_overlap characters: the later starts
\* chunk_size - chunk_overlap after the earlier, the earlier has the full
\* chunk_size, and its last chunk_overlap characters are the first
\* chunk_overlap characters of the later.
C6_AdjacentOverlap ==
    ChunkDone =>
        \A k \in 1..(Len(req["r1"].chunks) - 1) :
            (/\ req["r1"].wins[k + 1] = req["r1"].wins[k] + 1
             /\ Len(req["r1"].chunks[k + 1]) >= chunk_overlap)
            => /\ req["r1"].starts[k + 1] = req["r1"].starts[k] + chunk_size - chunk_overlap
               /\ Len(req["r1"].chunks[k]) = chunk_size
               /\ OverlapBy(req["r1"].chunks[k], req["r1"].chunks[k + 1], chunk_overlap)
               /\ SharedPositions(req["r1"], k) = chunk_overlap

\* a run with an overlapping pair and, later, a skipped blank window
C6_Witness ==
    /\ ChunkDone
    /\ chunk_overlap >= 1
    /\ Len(req["r1"].chunks) >= 3
    /\ req["r1"].wins[2] = req["r1"].wins[1] + 1
    /\ Len(req["r1"].chunks[2]) >= chunk_overlap
    /\ \E k \in 2..(Len(req["r1"].chunks) - 1) : req["r1"].wins[k + 1] > req["r1"].wins[k] + 1

\* the whole of s is one email address of the pattern (re.fullmatch)
IsEmail(s) ==
    \E l \in 1..Len(s) : \E d \in 1..Len(s) :
        /\ \A k \in 1..l : s[k] \in LocalClass
        /\ l + 2 < d /\ s[l + 1] = "@"
        /\ \A k \in (l + 2)..(d - 1) : s[k] \in DomainClass
        /\ s[d] = "."
        /\ Len(s) >= d + 2
        /\ \A k \in (d + 1)..Len(s) : s[k] \in TldClass
        /\ s[1] \in WordClass
        /\ s[Len(s)] \in WordClass

\* C7: an input that is an email address of the masker's pattern, whatever
\* its length, is returned as exactly 12 characters: its first 3 characters,
\* 5 mask characters, its last 4 characters; "john.doe@example.com" becomes
\* "joh*****.com".
C7_EmailMaskedTo12 ==
    (mask_pc = "returned" /\ IsEmail(mask_text))
    => /\ Len(mask_result) = 12
       /\ mask_result
            = SubSeq(mask_text, 1, 3) \o <<"*", "*", "*", "*", "*">>
                \o SubSeq(mask_text, Len(mask_text) - 3, Len(mask_text))
       /\ mask_text = JohnDoe
            => mask_result = <<"j", "o", "h", "*", "*", "*", "*", "*", ".", "c", "o", "m">>

\* the example of scenario D has been masked
C7_Witness ==
    /\ mask_pc = "returned"
    /\ IsEmail(mask_text)
    /\ mask_text = JohnDoe

RECURSIVE Flatten(_)
Flatten(ss) == IF ss = <<>> THEN <<>> ELSE Head(ss) \o Flatten(Tail(ss))

\* C8: with the remote backend, _generate_azure_embeddings sends the texts in
\* consecutive batches of at most 16, never two at a time, and returns one
\* vector per text in input order: the k-th is the backend's vector for the
\* k-th text.
C8_BatchedInOrder ==
    LET q == req["r1"]
    IN  (q.kind = "embed" /\ use_azure_openai)
        => /\ q.in_flight <= 1
           /\ \A b \in 1..Len(q.issued) : Len(q.issued[b]) \in 1..16
           /\ Flatten(q.issued) = SubSeq(q.texts, 1, Len(Flatten(q.issued)))
           /\ q.pc = "emb_ret"
                => /\ Flatten(q.issued) = q.texts
                   /\ Len(q.embeddings) = Len(q.texts)
                   /\ \A k \in 1..Len(q.texts) : q.embeddings[k] = BackendVector(q.texts[k])

\* 33 texts or more have come back from three batches
C8_Witness ==
    /\ req["r1"].kind = "embed"
    /\ use_azure_openai
    /\ req["r1"].pc = "emb_ret"
    /\ Len(req["r1"].texts) >= 33
    /\ Len(req["r1"].issued) = 3
    /\ Len(req["r1"].embeddings) = Len(req["r1"].texts)

\* C1: a Delete whose confirm flag is absent or false ends with a 400 and
\* touches no store: the index and the blobs are what they were when the
\* request arrived, so any search returns what it returned before.
C1_UnconfirmedDeleteRejected ==
    \A r \in Reqs :
        (req[r].kind = "delete" /\ ~req[r].confirm /\ req[r].pc # "del_check")
        => /\ req[r].pc = "done"
           /\ req[r].status = 400
           /\ index = req[r].pre_index
           /\ blobs = req[r].pre_blobs
           /\ \A k \in TopKs : FirstTopK(index, k) = FirstTopK(req[r].pre_index, k)

\* an unconfirmed delete of a stored file was rejected
C1_Witness ==
    \E r \in Reqs :
        /\ req[r].kind = "delete" /\ ~req[r].confirm
        /\ req[r].status = 400
        /\ \E k \in 1..Len(index) : index[k].filename = req[r].filename
        /\ req[r].filename \in DOMAIN blobs

\* C2: delete-by-filename removes exactly the records whose filename is the
\* target, returns how many they were, and leaves the other records as they
\* were and in the same order.
C2_DeleteByFilename ==
    \A r \in Reqs :
        (req[r].kind = "delete" /\ req[r].pc = "del_blob")
        => /\ index = SelectSeq(req[r].pre_index, LAMBDA doc : doc.filename # req[r].filename)
           /\ req[r].deleted_count
                = Cardinality({k \in 1..Len(req[r].pre_index) :
                                  req[r].pre_index[k].filename = req[r].filename})

\* two records were deleted and another file's record was left
C2_Witness ==
    \E r \in Reqs :
        /\ req[r].kind = "delete" /\ req[r].pc = "del_blob"
        /\ req[r].deleted_count = 2
        /\ index # <<>>
        /\ Len(req[r].pre_index) = Len(index) + 2

\* C3 as stated: for every top_k the request model accepts, the results list
\* of /query has length at most top_k.
C3_AsStated ==
    \A r \in Reqs :
        (req[r].kind = "query" /\ req[r].status = 200)
        => Len(req[r].response.results) <= req[r].top_k

\* C4 as stated: for a PDF with no extractable text the extractor yields no
\* chunk and the ingestion does not fail: no vector record is stored and no
\* error response comes of it (the backend failing is another matter).
C4_AsStated ==
    \A r \in Reqs :
        (req[r].kind = "upload" /\ req[r].no_text)
        => /\ req[r].chunks = <<>>
           /\ req[r].status = 500 => req[r].err \in {"EmbeddingError"}

\* what the records of the processed files look like, in order
RECURSIVE ExpectedMeta(_)
ExpectedMeta(processed) ==
    IF processed = <<>> THEN <<>>
    ELSE [k \in 1..Head(processed).chunks |->
            [filename |-> Head(processed).filename, chunk_id |-> k - 1]]
         \o ExpectedMeta(Tail(processed))

Meta(docs) == [k \in 1..Len(docs) |-> [filename |-> docs[k].filename, chunk_id |-> docs[k].chunk_id]]

IsPdf(file) == EndsWith(file.filename, <<".", "p", "d", "f">>)

\* C9: after store_vectors has stored a file of n chunks the index holds n new
\* records for it, the k-th (from 0) with the text of the k-th chunk, ordinal k
\* and the file's filename; the identifiers returned are theirs, in order; and
\* all identifiers in the index differ.
C9_OneRecordPerChunk ==
    /\ \A j, k \in 1..Len(index) : j # k => index[j].id # index[k].id
    /\ \A r \in Reqs :
        LET q == req[r]
            n == Len(q.chunks)
            old == Len(index) - n
        IN  (q.kind = "upload" /\ q.pc = "up_next" /\ q.stages # <<>>)
            => /\ Len(q.doc_ids) = n
               /\ old >= 0
               /\ \A k \in 1..n :
                    /\ index[old + k].id = q.doc_ids[k]
                    /\ index[old + k].content = q.chunks[k]
                    /\ index[old + k].chunk_id = k - 1
                    /\ index[old + k].filename = q.filename
                    /\ index[old + k].embedding = BackendVector(q.chunks[k])
               /\ \A k \in 1..old : ~InSeq(index[k].id, q.doc_ids)
               /\ SubSeq(index, 1, Len(q.pre_index)) = q.pre_index
               /\ Meta(SubSeq(index, Len(q.pre_index) + 1, Len(index)))
                    = ExpectedMeta(q.processed_files)

\* a file of two chunks was stored into an index that held records already
C9_Witness ==
    \E r \in Reqs :
        /\ req[r].kind = "upload" /\ req[r].pc = "up_next"
        /\ req[r].stages = <<"blob", "extract", "embed", "store">>
        /\ Len(req[r].chunks) = 2
        /\ Len(req[r].doc_ids) = 2
        /\ Len(index) > 2

\* the blobs after upload_blob was called for each PDF of files, in order
RECURSIVE BlobsAfter(_, _)
BlobsAfter(store, files) ==
    IF files = <<>> THEN store
    ELSE BlobsAfter(IF IsPdf(Head(files))
                    THEN [f \in DOMAIN store \cup {Head(files).filename} |->
                            IF f = Head(files).filename THEN Head(files).content ELSE store[f]]
                    ELSE store,
                    Tail(files))

IsPrefix(s, t) == Len(s) <= Len(t) /\ s = SubSeq(t, 1, Len(s))

\* C10: each PDF of an upload goes through upload blob, extract and chunk,
\* embed, store, in this order; when extraction, embedding or storing fails
\* for a PDF the request ends with a 500 that carries no per-file summary, no
\* later file is taken, and nothing is rolled back: the blobs of the PDFs up
\* to and including the failing one and the records of the PDFs before it are
\* in the stores.
C10_AbortWithoutRollback ==
    \A r \in Reqs :
        LET q == req[r]
            kept == Len(q.pre_index) + Len(ExpectedMeta(q.processed_files))
        IN  q.kind = "upload"
            => /\ IsPrefix(q.stages, <<"blob", "extract", "embed", "store">>)
               /\ (q.status = 500
                   /\ q.err \in {"ExtractionError", "EmbeddingError", "IndexError",
                                 "IndexError_store"})
                  => /\ q.pc = "done"
                     /\ DOMAIN q.response = {"detail"}
                     /\ q.stages = CASE q.err = "ExtractionError" -> <<"blob">>
                                     [] q.err = "IndexError_store" -> <<"blob", "extract", "embed">>
                                     [] OTHER -> <<"blob", "extract">>
                     /\ Len(q.files) = q.file_idx
                     /\ Len(q.processed_files)
                          = Cardinality({k \in 1..(q.file_idx - 1) : IsPdf(q.files[k])})
                     /\ blobs = IF blob_mock THEN q.pre_blobs
                                ELSE BlobsAfter(q.pre_blobs, q.files)
                     /\ Len(index) >= kept
                     /\ SubSeq(index, 1, Len(q.pre_index)) = q.pre_index
                     /\ Meta(SubSeq(index, Len(q.pre_index) + 1, kept))
                          = ExpectedMeta(q.processed_files)
                     /\ \A k \in (kept + 1)..Len(index) :
                          q.err = "IndexError_store" /\ index[k].filename = q.filename

\* the second PDF of a request failed after the first was stored: the first
\* PDF's records and both blobs are there
C10_Witness ==
    \E r \in Reqs :
        /\ req[r].kind = "upload" /\ req[r].status = 500
        /\ req[r].err \in {"ExtractionError", "EmbeddingError", "IndexError", "IndexError_store"}
        /\ Len(req[r].processed_files) = 1
        /\ req[r].processed_files[1].filename # req[r].filename
        /\ ~blob_mock
        /\ {req[r].processed_files[1].filename, req[r].filename} \subseteq DOMAIN blobs
        /\ \E k \in 1..Len(index) : index[k].filename = req[r].processed_files[1].filename

\* C11: a confirmed delete deletes the vector records of the filename first
\* and the blob afterwards.  When the blob deletion fails after the vector
\* deletion succeeded the request ends with a 500, the records of the filename
\* are gone, the blobs are as they were (the blob, if it was there, is still
\* there), and the other records are untouched.  When the vector deletion
\* fails the blob deletion is never attempted.
C11_VectorsThenBlob ==
    \A r \in Reqs :
        LET q == req[r]
        IN  (q.kind = "delete" /\ q.confirm)
            => /\ IsPrefix(q.stages, <<"vectors", "blob">>)
               /\ (q.pc = "done" /\ q.err = "BlobError")
                  => /\ q.status = 500
                     /\ q.stages = <<"vectors", "blob">>
                     /\ \A k \in 1..Len(index) : index[k].filename # q.filename
                     /\ index = SelectSeq(q.pre_index, LAMBDA doc : doc.filename # q.filename)
                     /\ blobs = q.pre_blobs
               /\ (q.pc = "done" /\ q.err = "IndexError_delete")
                  => /\ q.status = 500
                     /\ q.stages = <<>>
                     /\ blobs = q.pre_blobs

\* the blob deletion failed after the records of a stored file were deleted:
\* the blob is there and the records are not
C11_Witness ==
    \E r \in Reqs :
        /\ req[r].kind = "delete" /\ req[r].confirm
        /\ req[r].pc = "done" /\ req[r].err = "BlobError" /\ req[r].status = 500
        /\ req[r].filename \in DOMAIN blobs
        /\ \E k \in 1..Len(req[r].pre_index) : req[r].pre_index[k].filename = req[r].filename
        /\ \A k \in 1..Len(index) : index[k].filename # req[r].filename
        /\ ~vs_mock

\* C12: when chunk_overlap < chunk_size the loop of _create_chunks ends for
\* every text, start having reached len(text) or more; when chunk_overlap >=
\* chunk_size it ends for no text that is not empty: start never reaches
\* len(text), the advance being zero or negative.
C12_LoopTermination ==
    /\ (chunk_overlap < chunk_size)
        => <>(req["r1"].pc = "done" /\ req["r1"].start >= Len(req["r1"].text))
    /\ (chunk_overlap >= chunk_size /\ req["r1"].text # <<>>)
        => [](req["r1"].pc = "chunk_loop" /\ req["r1"].start < Len(req["r1"].text))

\* the loop has run MaxIters times with chunk_overlap >= chunk_size and start
\* is no nearer to len(text) than it was
C12_Witness ==
    /\ chunk_overlap >= chunk_size
    /\ req["r1"].text # <<>>
    /\ req["r1"].pc = "chunk_loop"
    /\ req["r1"].iter = MaxIters
    /\ req["r1"].start <= 0
    /\ Len(req["r1"].chunks) = MaxIters

\* the records of docs whose filename is f
OfFile(docs, f) == SelectSeq(docs, LAMBDA doc : doc.filename = f)

\* C13: two ingestions of one filename of n chunks each, one after the other
\* or interleaved, leave 2n records of that filename in the index, every
\* ordinal 0..n-1 twice and under identifiers that all differ; the container
\* holds one blob of that name, with the content of the upload_blob call that
\* completed last (a mock blob client keeps no blob at all).
C13_TwoIngestions ==
    LET a == req["r1"]
        b == req["r2"]
        f == a.filename
        n == Len(a.chunks)
        recs == OfFile(index, f)
    IN  (/\ a.kind = "upload" /\ a.pc = "done" /\ a.status = 200 /\ Len(a.processed_files) = 1
         /\ b.kind = "upload" /\ b.pc = "done" /\ b.status = 200 /\ Len(b.processed_files) = 1
         /\ b.filename = f
         /\ Len(b.chunks) = n)
        => /\ n >= 1
           /\ Len(recs) = 2 * n
           /\ \A k \in 0..(n - 1) : Cardinality({j \in 1..Len(recs) : recs[j].chunk_id = k}) = 2
           /\ \A j, k \in 1..Len(index) : j # k => index[j].id # index[k].id
           /\ \A k \in 1..n : \A r \in Reqs :
                \E j \in 1..Len(recs) : /\ recs[j].id = req[r].doc_ids[k]
                                       /\ recs[j].content = req[r].chunks[k]
                                       /\ recs[j].chunk_id = k - 1
           /\ Cardinality({r \in Reqs : f \in req[r].last_puts}) = 1
           /\ ~blob_mock => /\ f \in DOMAIN blobs
                            /\ \A r \in Reqs : f \in req[r].last_puts => blobs[f] = req[r].content
           /\ blob_mock => blobs = <<>>

\* two interleaved ingestions of one name and different contents are done:
\* r1 stored its record first, and the blob has r1's content, r1's
\* upload_blob having come after r2's
C13_Witness ==
    /\ req["r1"].kind = "upload" /\ req["r1"].pc = "done" /\ req["r1"].status = 200
    /\ req["r2"].kind = "upload" /\ req["r2"].pc = "done" /\ req["r2"].status = 200
    /\ req["r1"].filename = FileB /\ req["r2"].filename = FileB
    /\ req["r1"].content # req["r2"].content
    /\ ~blob_mock
    /\ Len(index) = 2
    /\ index[1].id = req["r1"].doc_ids[1]
    /\ index[2].id = req["r2"].doc_ids[1]
    /\ blobs[FileB] = req["r1"].content

\* delete_by_metadata has returned in request q
VectorsDeleted(q) == q.kind = "delete" /\ q.stages # <<>> /\ q.stages[1] = "vectors"

\* C14: against a live index delete_by_metadata is a search followed by a
\* delete.  Two deletes of one filename whose searches both ran before either
\* delete_documents call both return the full count n of the records that
\* existed, so the counts add up to more than n, and every 200 response
\* carries n.  And when an upload stores records of that filename between a
\* delete's search and its delete_documents call, those records are in the
\* index after the delete, which counts only the records its search returned.
C14_SearchThenDelete ==
    /\ LET a == req["r1"]
           b == req["r2"]
           n == Len(a.found)
       IN  (/\ ~vs_mock
            /\ VectorsDeleted(a) /\ VectorsDeleted(b)
            /\ a.filename = b.filename
            /\ a.found = b.found
            /\ n >= 1)
           => /\ a.deleted_count = n
              /\ b.deleted_count = n
              /\ n = Len(OfFile(a.pre_index, a.filename))
              /\ n = Len(OfFile(b.pre_index, a.filename))
              /\ a.deleted_count + b.deleted_count > n
              /\ OfFile(index, a.filename) = <<>>
              /\ \A r \in Reqs : req[r].status = 200 => req[r].response.vectors_deleted = n
    /\ \A r, x \in Reqs :
        LET d == req[r]
            u == req[x]
        IN  (/\ ~vs_mock
             /\ VectorsDeleted(d)
             /\ u.kind = "upload" /\ u.filename = d.filename
             /\ u.doc_ids # <<>>
             /\ \E k \in 1..Len(u.doc_ids) : InSeq(u.doc_ids[k], d.missed))
            => /\ \A k \in 1..Len(u.doc_ids) :
                    /\ ~InSeq(u.doc_ids[k], d.found)
                    /\ \E j \in 1..Len(index) : /\ index[j].id = u.doc_ids[k]
                                                /\ index[j].filename = d.filename
               /\ \A j \in 1..Len(index) : ~InSeq(index[j].id, d.found)
               /\ d.deleted_count = Len(d.found)
               /\ d.status = 200 => d.response.vectors_deleted = Len(d.found)

\* two deletes of a filename of two records have both returned from
\* delete_by_metadata with a count of 2, their searches having run before
\* either delete_documents call
C14_Witness ==
    /\ ~vs_mock
    /\ VectorsDeleted(req["r1"]) /\ VectorsDeleted(req["r2"])
    /\ req["r1"].filename = req["r2"].filename
    /\ req["r1"].found = req["r2"].found
    /\ Len(req["r1"].found) = 2
    /\ req["r1"].deleted_count = 2
    /\ req["r2"].deleted_count = 2
    /\ Len(OfFile(req["r1"].pre_index, req["r1"].filename)) = 2
    /\ index = <<>>
====
